---- MODULE Spec2Model ----
(***************************************************************************)
(* Keyword-forwarding Telegram bot (gitArlex/telegrambotofertas).          *)
(* Two programs share the model: bot.py (long polling, in-memory db        *)
(* mirrored to db.json) and bot_webhook.py (FastAPI webhook, SQLite).      *)
(* The variable impl says which of the two programs a behaviour runs.      *)
(*                                                                         *)
(* Strings are sequences of one-character strings.  The characters are     *)
(*   "a" "b" "1" "2"  plain lower-case letters and digits                  *)
(*   "A"              LATIN CAPITAL LETTER A                               *)
(*   "aa"             U+00E1, a with acute, precomposed                    *)
(*   "AA"             U+00C1, A with acute, precomposed                    *)
(*   "^"              U+0301, COMBINING ACUTE ACCENT                       *)
(*   " "              space                                                *)
(***************************************************************************)
EXTENDS Integers, Sequences, FiniteSets, TLC

\* ------------------------------------------------------------------ bounds
\* longest text / keyword drawn for the matcher
MaxLen == 3
\* updates (commands and messages) handled in one run
MaxUpdates == 2

\* ------------------------------------------------------------- characters
Whitespace == {" "}

\* str.lower() on one character
LowerChar(ch) ==
  CASE ch = "A" -> "a"
    [] ch = "AA" -> "aa"
    [] OTHER -> ch

\* canonical decomposition (NFD) of one character
NFDChar(ch) ==
  CASE ch = "aa" -> <<"a", "^">>
    [] ch = "AA" -> <<"A", "^">>
    [] OTHER -> <<ch>>

\* unicodedata.combining(ch) # 0
combining(ch) == ch = "^"

RECURSIVE lower(_)
lower(s) == IF s = <<>> THEN <<>> ELSE <<LowerChar(Head(s))>> \o lower(Tail(s))

RECURSIVE NFD(_)
NFD(s) == IF s = <<>> THEN <<>> ELSE NFDChar(Head(s)) \o NFD(Tail(s))

RECURSIVE DropCombining(_)
DropCombining(s) ==
  IF s = <<>> THEN <<>>
  ELSE (IF combining(Head(s)) THEN <<>> ELSE <<Head(s)>>) \o DropCombining(Tail(s))

\* normalize(s): lower-case, decompose, drop the combining marks
normalize(s) ==
  IF s = <<>> THEN <<>> ELSE DropCombining(NFD(lower(s)))

\* str.split(): the maximal runs of non-whitespace characters, in order.
\* cur is the token being read, acc the tokens read so far.
RECURSIVE SplitFrom(_, _, _)
SplitFrom(s, cur, acc) ==
  IF s = <<>> THEN (IF cur = <<>> THEN acc ELSE Append(acc, cur))
  ELSE IF Head(s) \in Whitespace
       THEN SplitFrom(Tail(s), <<>>, IF cur = <<>> THEN acc ELSE Append(acc, cur))
       ELSE SplitFrom(Tail(s), Append(cur, Head(s)), acc)

split(s) == SplitFrom(s, <<>>, <<>>)

\* tok in text: scan the offsets left to right
RECURSIVE InAt(_, _, _)
InAt(tok, text, i) ==
  IF i + Len(tok) > Len(text) THEN FALSE
  ELSE IF SubSeq(text, i + 1, i + Len(tok)) = tok THEN TRUE
  ELSE InAt(tok, text, i + 1)

In(tok, text) == InAt(tok, text, 0)

\* all(...) over a list of tokens
RECURSIVE AllIn(_, _)
AllIn(tokens, text) ==
  IF tokens = <<>> THEN TRUE
  ELSE In(Head(tokens), text) /\ AllIn(Tail(tokens), text)

\* a plausible slip: any(...) instead of all(...)
RECURSIVE AnyIn(_, _)
AnyIn(tokens, text) ==
  IF tokens = <<>> THEN FALSE
  ELSE In(Head(tokens), text) \/ AnyIn(Tail(tokens), text)

text_contains_all_tokens_any(text, keyword) ==
  AnyIn(split(normalize(keyword)), normalize(text))

text_contains_all_tokens(text, keyword) ==
  AllIn(split(normalize(keyword)), normalize(text))

\* str.strip(): drop leading and trailing whitespace
RECURSIVE LStrip(_)
LStrip(s) ==
  IF s = <<>> THEN <<>>
  ELSE IF Head(s) \in Whitespace THEN LStrip(Tail(s)) ELSE s

RECURSIVE RStrip(_)
RStrip(s) ==
  IF s = <<>> THEN <<>>
  ELSE IF s[Len(s)] \in Whitespace THEN RStrip(SubSeq(s, 1, Len(s) - 1)) ELSE s

\* a slip: the argument is taken as typed
strip_none(s) == s

strip(s) == RStrip(LStrip(s))


\* ------------------------------------------------------------ the universe
\* Telegram users that talk to the bot
UserIds == {1, 2, 3}

\* Telegram group chats the bot can be registered in; Chat(c) is what
\* Telegram reports for chat c (chat.id, chat.title, chat.username)
ChatIds == {1, 2}
ChatTitle(c) == IF c = 1 THEN <<"A", "2">> ELSE <<"b">>
ChatUsername(c) == IF c = 1 THEN <<"b">> ELSE <<>>
Chat(c) == [id |-> c, title |-> ChatTitle(c), username |-> ChatUsername(c)]

\* str(chat_id)
str(n) == IF n = 1 THEN <<"1">> ELSE IF n = 2 THEN <<"2">> ELSE <<"3">>

\* keyword phrases
Ka == <<"a">>
Kba == <<"b", " ", "a">>
Kbb == <<"b", "b">>
\* the part of a command's text after the first space, as typed
RawArgs == {<<>>, <<" ">>, <<"a">>, <<" ", "b", "b", " ">>}
\* texts (or captions) of the messages posted in the chats
Tab == <<"AA", "b">>
Texts == {<<>>, Tab, Kbb}
\* the argument typed after /sairgc and /addgc
ChatArgs == {<<>>, <<"1">>, <<"2">>, <<"b">>, <<"@", "b">>, <<"a", "a">>}

\* --------------------------------------------------------------- variables
VARIABLES
  impl,     \* "bot" (bot.py) or "webhook" (bot_webhook.py)
  users,    \* subscriber records in iteration order: db["users"] / tables users+keywords
  watched,  \* watched chats in iteration order: db["watched_chats"] / table watched_chats
  disk,     \* content of db.json (bot.py)
  tasks,    \* the handlers suspended on an await
  nupd,     \* updates handled so far
  evt,      \* the update handled last and the reply it produced
  optout,   \* users whose last /notifyme or /removeme was /removeme
  mtext, mkw, mres,  \* matcher under test: inputs and result
  fs,       \* bot.py: the files db.json, db.json.tmp, db.txt and the save_db in progress
  boot      \* bot_webhook.py: the Application object, the startup task, the /webhook endpoint

vars == <<impl, users, watched, disk, tasks, nupd, evt, optout, mtext, mkw, mres, fs, boot>>

\* ------------------------------------------------------------------ store
\* position of key id in an ordered mapping (0: absent)
RECURSIVE IndexFrom(_, _, _)
IndexFrom(m, id, i) ==
  IF i > Len(m) THEN 0
  ELSE IF m[i].id = id THEN i
  ELSE IndexFrom(m, id, i + 1)

IndexOf(m, id) == IndexFrom(m, id, 1)

\* kw in kw_list
RECURSIVE Member(_, _)
Member(kw, l) ==
  IF l = <<>> THEN FALSE
  ELSE IF Head(l) = kw THEN TRUE
  ELSE Member(kw, Tail(l))

\* kw_list.remove(kw): drop the first occurrence
RECURSIVE Remove(_, _)
Remove(kw, l) ==
  IF l = <<>> THEN <<>>
  ELSE IF Head(l) = kw THEN Tail(l)
  ELSE <<Head(l)>> \o Remove(kw, Tail(l))

\* DELETE ... WHERE keyword=?: drop every occurrence
RECURSIVE RemoveAll(_, _)
RemoveAll(kw, l) ==
  IF l = <<>> THEN <<>>
  ELSE (IF Head(l) = kw THEN <<>> ELSE <<Head(l)>>) \o RemoveAll(kw, Tail(l))

\* insert record r into a table kept in rowid (= id) order
RECURSIVE InsertById(_, _)
InsertById(m, r) ==
  IF m = <<>> THEN <<r>>
  ELSE IF r.id < Head(m).id THEN <<r>> \o m
  ELSE <<Head(m)>> \o InsertById(Tail(m), r)

\* a subscriber record
U(id, sub, kws) == [id |-> id, subscribed |-> sub, keywords |-> kws]

NewUser(id) == U(id, FALSE, <<>>)

\* bot.py ensure_user_record: a new key goes to the end of the dict
ensure_user_record(us, id) ==
  IF IndexOf(us, id) = 0 THEN Append(us, NewUser(id)) ELSE us

\* bot_webhook.py ensure_user: INSERT OR IGNORE
ensure_user(us, id) ==
  IF IndexOf(us, id) = 0 THEN InsertById(us, NewUser(id)) ELSE us

\* the caller's keyword list ([] when there is no row)
get_keywords(us, id) ==
  IF IndexOf(us, id) = 0 THEN <<>> ELSE us[IndexOf(us, id)].keywords

SetKeywords(us, id, l) == [us EXCEPT ![IndexOf(us, id)].keywords = l]
SetSubscribed(us, id, b) == [us EXCEPT ![IndexOf(us, id)].subscribed = b]

\* a slip: append without looking for the phrase first
add_keyword_for_user_nocheck(us, id, keyword) ==
  LET us1 == ensure_user_record(us, id)
  IN [users |-> SetKeywords(us1, id, Append(get_keywords(us1, id), keyword)),
      saved |-> TRUE, ok |-> TRUE]

\* bot.py add_keyword_for_user: the new db["users"], whether save_db ran,
\* and the value returned
add_keyword_for_user(us, id, keyword) ==
  LET us1 == ensure_user_record(us, id)
      kw_list == get_keywords(us1, id)
  IN IF ~Member(keyword, kw_list)
     THEN [users |-> SetKeywords(us1, id, Append(kw_list, keyword)),
           saved |-> TRUE, ok |-> TRUE]
     ELSE [users |-> us1, saved |-> FALSE, ok |-> FALSE]

\* bot.py del_keyword_for_user
del_keyword_for_user(us, id, keyword) ==
  LET us1 == ensure_user_record(us, id)
      kw_list == get_keywords(us1, id)
  IN IF Member(keyword, kw_list)
     THEN [users |-> SetKeywords(us1, id, Remove(keyword, kw_list)),
           saved |-> TRUE, ok |-> TRUE]
     ELSE [users |-> us1, saved |-> FALSE, ok |-> FALSE]

\* bot_webhook.py add_keyword
add_keyword(us, id, keyword) ==
  LET us1 == ensure_user(us, id)
      kw_list == get_keywords(us1, id)
  IN IF Member(keyword, kw_list)
     THEN [users |-> us1, ok |-> FALSE]
     ELSE [users |-> SetKeywords(us1, id, Append(kw_list, keyword)), ok |-> TRUE]

\* bot_webhook.py del_keyword: no ensure_user; ok is rowcount > 0
del_keyword(us, id, keyword) ==
  LET kw_list == get_keywords(us, id)
  IN IF Member(keyword, kw_list)
     THEN [users |-> SetKeywords(us, id, RemoveAll(keyword, kw_list)), ok |-> TRUE]
     ELSE [users |-> us, ok |-> FALSE]

\* bot_webhook.py del_all_keywords
del_all_keywords(us, id) ==
  IF IndexOf(us, id) = 0 THEN us ELSE SetKeywords(us, id, <<>>)

\* bot_webhook.py set_subscribed
set_subscribed(us, id, b) == SetSubscribed(ensure_user(us, id), id, b)

\* bot.py add_watched_chat: db["watched_chats"][str(chat.id)] = {...};
\* an existing key keeps its place
add_watched_chat(w, chat) ==
  IF IndexOf(w, chat.id) = 0 THEN Append(w, chat)
  ELSE [w EXCEPT ![IndexOf(w, chat.id)] = chat]

\* bot_webhook.py add_watched_chat: INSERT OR REPLACE
wh_add_watched_chat(w, chat) ==
  IF IndexOf(w, chat.id) = 0 THEN InsertById(w, chat)
  ELSE [w EXCEPT ![IndexOf(w, chat.id)] = chat]

\* remove_watched_chat (both programs): nothing when the key is absent
remove_watched_chat(w, chat_id) ==
  LET i == IndexOf(w, chat_id)
  IN IF i = 0 THEN w ELSE SubSeq(w, 1, i - 1) \o SubSeq(w, i + 1, Len(w))


\* ------------------------------------------------------------------ tasks
\* handlers that can be suspended at the same time (concurrent_updates(True))
MaxTasks == 2
Tasks == 1..MaxTasks

\* a handler slot.  kind/pc: which handler and which await it is suspended on.
\* chat, text: the message; size, idx: the dict iterator of bot.py (length of
\* db["users"] when the loop began, position); uids, idx: the list
\* get_subscribed_users() returned and the position in it (bot_webhook.py);
\* kw: the keyword that matched for the user being served.
\* Observations kept for the properties:
\*   out    the outbound calls of this pass that have returned, in order
\*   seen   the records the loop has read, in order
\*   elig   users subscribed with a matching keyword ever since the message came
\*   off    users opted out (/removeme) ever since the message came
\*   unsub  users not subscribed ever since the message came
\*   failed users whose failed delivery has been dealt with
\*   missed elig users left without a delivery attempt when the pass ended
\*   gone   chats this /sairgcall has removed from the watched chats
IdleTask ==
  [kind |-> "none", pc |-> "idle", chat |-> 0, text |-> <<>>,
   size |-> 0, idx |-> 0, uids |-> <<>>, to |-> 0, kw |-> <<>>,
   out |-> <<>>, seen |-> <<>>, elig |-> {}, off |-> {}, unsub |-> {},
   failed |-> {}, missed |-> {}, gone |-> {}]

Ended == {"idle", "done", "aborted"}

\* a new handler takes the first slot that is not suspended
FreeSlot(t) ==
  /\ tasks[t].pc \in Ended
  /\ \A s \in Tasks : s < t => tasks[s].pc \notin Ended

\* an update and its outcome: the command, the user who sent it, the chat it
\* is about, its text (a message) or its argument as typed (a command), the reply
Event(cmd, user, chat, text, reply) ==
  [cmd |-> cmd, user |-> user, chat |-> chat, text |-> text, reply |-> reply]

\* save_db(db): db.json now holds the in-memory db
Saved(us, w) == [users |-> us, watched |-> w]

\* ------------------------------------------------------------- dispatching
\* for kw in kws: if text_contains_all_tokens(text, kw): break
\* the position of the keyword the loop stops at (0: none matched)
RECURSIVE FirstMatchFrom(_, _, _)
FirstMatchFrom(text, kws, i) ==
  IF i > Len(kws) THEN 0
  ELSE IF text_contains_all_tokens(text, kws[i]) THEN i
  ELSE FirstMatchFrom(text, kws, i + 1)

\* a slip: the loop without its break stops at the last keyword that matches
RECURSIVE LastMatchFrom(_, _, _)
LastMatchFrom(text, kws, i) ==
  IF i < 1 THEN 0
  ELSE IF text_contains_all_tokens(text, kws[i]) THEN i
  ELSE LastMatchFrom(text, kws, i - 1)

FirstMatch_last(text, kws) == LastMatchFrom(text, kws, Len(kws))

FirstMatch(text, kws) == FirstMatchFrom(text, kws, 1)

\* a slip: the subscribed flag is not looked at
Matches_nosub(r, text) ==
  /\ r.keywords # <<>>
  /\ FirstMatch(text, r.keywords) # 0

\* the user record is served: subscribed, has keywords, one of them matches
Matches(r, text) ==
  /\ r.subscribed
  /\ r.keywords # <<>>
  /\ FirstMatch(text, r.keywords) # 0

\* bot.py: the next entry of db["users"], from position i on, that the loop
\* delivers to (0: the loop runs to its end)
RECURSIVE NextServed(_, _, _)
NextServed(us, i, text) ==
  IF i > Len(us) THEN 0
  ELSE IF Matches(us[i], text) THEN i
  ELSE NextServed(us, i + 1, text)

\* users with an outbound call in the log
Attempted(out) == {out[i].to : i \in 1..Len(out)}

\* users subscribed with a matching keyword
Eligible(us, text) == {us[i].id : i \in {j \in 1..Len(us) : Matches(us[j], text)}}

\* users without a record or with subscribed = false
NotSubscribed(us) ==
  {u \in UserIds : IndexOf(us, u) = 0 \/ ~us[IndexOf(us, u)].subscribed}

\* the pass is over: drop the loop's locals, keep the observations
EndTask(tk, pc) ==
  [tk EXCEPT !.pc = pc, !.size = 0, !.idx = 0, !.uids = <<>>, !.to = 0, !.kw = <<>>,
             !.missed = tk.elig \ Attempted(tk.out)]

\* bot.py: the for statement asks the dict iterator for the next item, after
\* position tk.idx.  The iterator raises RuntimeError when the dict has grown.
BotAdvance(tk, us) ==
  IF Len(us) # tk.size THEN EndTask(tk, "aborted")
  ELSE LET j == NextServed(us, tk.idx + 1, tk.text)
       IN IF j = 0
          THEN EndTask([tk EXCEPT !.seen = @ \o SubSeq(us, tk.idx + 1, Len(us))], "done")
          ELSE [tk EXCEPT !.pc = "header", !.idx = j, !.to = us[j].id,
                          !.kw = us[j].keywords[FirstMatch(tk.text, us[j].keywords)],
                          !.seen = @ \o SubSeq(us, tk.idx + 1, j)]

\* what the running passes observe of a change to the store
Observe(tk, us, oo) ==
  IF tk.kind = "on_message" /\ tk.pc \notin Ended
  THEN [tk EXCEPT !.elig = @ \cap Eligible(us, tk.text), !.off = @ \cap oo,
                  !.unsub = @ \cap NotSubscribed(us)]
  ELSE tk

ObserveAll(tks, us, oo) == [t \in Tasks |-> Observe(tks[t], us, oo)]

\* the observations of the handlers that have ended are dropped when the
\* next update is handled
Reap(tks) == [t \in Tasks |-> IF tks[t].pc \in Ended THEN IdleTask ELSE tks[t]]


\* the record of an outbound call that has returned
Sent(to, what, kw, ok) == [to |-> to, what |-> what, kw |-> kw, ok |-> ok]

\* str(chat.id) in db["watched_chats"]
IsWatched_always(w, chat_id) == TRUE

IsWatched(w, chat_id) == IndexOf(w, chat_id) # 0

\* a slip: write back the record the loop read before its awaits
MarkUnsubscribed_stale(us, tk) ==
  LET i == IndexOf(us, tk.to)
  IN IF i = 0 THEN us
     ELSE [us EXCEPT ![i] = [tk.seen[Len(tk.seen)] EXCEPT !.subscribed = FALSE]]

\* bot.py 316-317: if str(to_chat_id) in db["users"]: ...["subscribed"] = False
MarkUnsubscribed(us, tk) ==
  IF IndexOf(us, tk.to) = 0 THEN us ELSE SetSubscribed(us, tk.to, FALSE)

\* a slip: unsubscribe without asking send_chat_action first
ProbeSaysBlocked_any(ok) == TRUE

\* bot.py 311-315: the subscriber counts as blocked when send_chat_action raises
ProbeSaysBlocked(ok) == ~ok

\* ---------------------------------------------------- bot.py: the handlers
\* the run handles at most MaxUpdates updates
CanHandle == nupd < MaxUpdates

Handle(e) ==
  /\ nupd' = nupd + 1
  /\ evt' = e
  /\ UNCHANGED <<impl, mtext, mkw, mres, fs, boot>>

\* /notifyme
notifyme(u) ==
  /\ impl = "bot"
  /\ CanHandle
  /\ LET us1 == SetSubscribed(ensure_user_record(users, u), u, TRUE)
     IN /\ users' = us1
        /\ disk' = Saved(us1, watched)
        /\ optout' = optout \ {u}
        /\ tasks' = ObserveAll(Reap(tasks), us1, optout \ {u})
  /\ Handle(Event("notifyme", u, 0, <<>>, "subscribed"))
  /\ UNCHANGED watched

\* /removeme
removeme(u) ==
  /\ impl = "bot"
  /\ CanHandle
  /\ LET us1 == SetSubscribed(ensure_user_record(users, u), u, FALSE)
     IN /\ users' = us1
        /\ disk' = Saved(us1, watched)
        /\ optout' = optout \cup {u}
        /\ tasks' = ObserveAll(Reap(tasks), us1, optout)
  /\ Handle(Event("removeme", u, 0, <<>>, "unsubscribed"))
  /\ UNCHANGED watched

\* /addp <raw>
addp(u, raw) ==
  /\ impl = "bot"
  /\ CanHandle
  /\ LET args == strip(raw)
         r == add_keyword_for_user(users, u, args)
     IN IF args = <<>>
        THEN /\ Handle(Event("addp", u, 0, raw, "usage"))
             /\ tasks' = Reap(tasks)
             /\ UNCHANGED <<users, disk>>
        ELSE /\ users' = r.users
             /\ disk' = IF r.saved THEN Saved(r.users, watched) ELSE disk
             /\ tasks' = ObserveAll(Reap(tasks), r.users, optout)
             /\ Handle(Event("addp", u, 0, raw, IF r.ok THEN "added" ELSE "exists"))
  /\ UNCHANGED <<watched, optout>>

\* /listp
listp(u) ==
  /\ impl = "bot"
  /\ CanHandle
  /\ users' = ensure_user_record(users, u)
  /\ tasks' = Reap(tasks)
  /\ Handle(Event("listp", u, 0, <<>>,
                  IF get_keywords(users, u) = <<>> THEN "none" ELSE "list"))
  /\ UNCHANGED <<watched, disk, optout>>

\* /delp <raw>
delp(u, raw) ==
  /\ impl = "bot"
  /\ CanHandle
  /\ LET args == strip(raw)
         r == del_keyword_for_user(users, u, args)
     IN IF args = <<>>
        THEN /\ Handle(Event("delp", u, 0, raw, "usage"))
             /\ tasks' = Reap(tasks)
             /\ UNCHANGED <<users, disk>>
        ELSE /\ users' = r.users
             /\ disk' = IF r.saved THEN Saved(r.users, watched) ELSE disk
             /\ tasks' = ObserveAll(Reap(tasks), r.users, optout)
             /\ Handle(Event("delp", u, 0, raw, IF r.ok THEN "removed" ELSE "notfound"))
  /\ UNCHANGED <<watched, optout>>

\* /delpall
delpall(u) ==
  /\ impl = "bot"
  /\ CanHandle
  /\ LET us1 == SetKeywords(ensure_user_record(users, u), u, <<>>)
     IN /\ users' = us1
        /\ disk' = Saved(us1, watched)
        /\ tasks' = ObserveAll(Reap(tasks), us1, optout)
  /\ Handle(Event("delpall", u, 0, <<>>, "cleared"))
  /\ UNCHANGED <<watched, optout>>

\* on_message, up to its first await: a message with text (or caption) text
\* arrives from chat c
on_message(c, text) ==
  /\ impl = "bot"
  /\ CanHandle
  /\ IF ~IsWatched(watched, c) \/ text = <<>>
     THEN /\ Handle(Event("message", 0, c, text, "ignored"))
          /\ tasks' = Reap(tasks)
     ELSE /\ \E t \in Tasks :
               /\ FreeSlot(t)
               /\ tasks' = [Reap(tasks) EXCEPT ![t] =
                    BotAdvance([IdleTask EXCEPT !.kind = "on_message", !.chat = c,
                                  !.text = text, !.size = Len(users),
                                  !.elig = Eligible(users, text), !.off = optout,
                    !.unsub = NotSubscribed(users)],
                               users)]
          /\ Handle(Event("message", 0, c, text, "dispatch"))
  /\ UNCHANGED <<users, watched, disk, optout>>

\* on_message: bot.send_message(header) returns (ok) or raises
on_message_header(t, ok) ==
  /\ impl = "bot"
  /\ tasks[t].kind = "on_message" /\ tasks[t].pc = "header"
  /\ tasks' = [tasks EXCEPT ![t].out = Append(@, Sent(tasks[t].to, "header", tasks[t].kw, ok)),
                            ![t].pc = IF ok THEN "forward" ELSE "probe"]
  /\ UNCHANGED <<impl, users, watched, disk, nupd, evt, optout, mtext, mkw, mres, fs, boot>>

\* the except branch has run for the user being served; the loop goes on
BotAfterFailure(t, tk, us) ==
  LET tks == ObserveAll([tasks EXCEPT ![t] = [tk EXCEPT !.failed = @ \cup {tk.to}]],
                        us, optout)
  IN [tks EXCEPT ![t] = BotAdvance(tks[t], us)]

\* on_message: bot.forward_message returns (ok) or raises
on_message_forward(t, ok) ==
  /\ impl = "bot"
  /\ tasks[t].kind = "on_message" /\ tasks[t].pc = "forward"
  /\ LET tk == [tasks[t] EXCEPT !.out = Append(@, Sent(tasks[t].to, "forward", tasks[t].kw, ok))]
     IN tasks' = [tasks EXCEPT ![t] = IF ok THEN BotAdvance(tk, users)
                                       ELSE [tk EXCEPT !.pc = "probe"]]
  /\ UNCHANGED <<impl, users, watched, disk, nupd, evt, optout, mtext, mkw, mres, fs, boot>>

\* on_message: bot.send_chat_action returns (ok) or raises
on_message_probe(t, ok) ==
  /\ impl = "bot"
  /\ tasks[t].kind = "on_message" /\ tasks[t].pc = "probe"
  /\ LET tk == [tasks[t] EXCEPT !.out = Append(@, Sent(tasks[t].to, "probe", tasks[t].kw, ok))]
         blocked == ProbeSaysBlocked(ok) /\ IndexOf(users, tk.to) # 0
         us1 == IF ProbeSaysBlocked(ok) THEN MarkUnsubscribed(users, tk) ELSE users
     IN /\ users' = us1
        /\ disk' = IF blocked THEN Saved(us1, watched) ELSE disk
        /\ tasks' = BotAfterFailure(t, tk, us1)
  /\ UNCHANGED <<impl, watched, nupd, evt, optout, mtext, mkw, mres, fs, boot>>


\* /addgc typed in the group or channel c
addgc(c) ==
  /\ impl = "bot"
  /\ CanHandle
  /\ watched' = add_watched_chat(watched, Chat(c))
  /\ disk' = Saved(users, watched')
  /\ Handle(Event("addgc", 0, c, <<>>, "registered"))
  /\ tasks' = Reap(tasks)
  /\ UNCHANGED <<users, optout>>

\* /addgc <raw> typed in a private chat, up to bot.get_chat(arg)
addgc_private(raw) ==
  /\ impl = "bot"
  /\ CanHandle
  /\ LET arg == strip(raw)
     IN IF arg = <<>>
        THEN /\ Handle(Event("addgc", 0, 0, raw, "usage"))
             /\ tasks' = Reap(tasks)
        ELSE /\ \E t \in Tasks :
                  /\ FreeSlot(t)
                  /\ tasks' = [Reap(tasks) EXCEPT ![t] =
                       [IdleTask EXCEPT !.kind = "addgc", !.pc = "get_chat"]]
             /\ Handle(Event("addgc", 0, 0, raw, "pending"))
  /\ UNCHANGED <<users, watched, disk, optout>>

\* /addgc in private: bot.get_chat returns chat res, or raises (res = 0)
addgc_get_chat(t, res) ==
  /\ impl = "bot"
  /\ tasks[t].kind = "addgc" /\ tasks[t].pc = "get_chat"
  /\ watched' = IF res = 0 THEN watched ELSE add_watched_chat(watched, Chat(res))
  /\ disk' = IF res = 0 THEN disk ELSE Saved(users, watched')
  /\ tasks' = [tasks EXCEPT ![t] = EndTask(@, "done")]
  /\ UNCHANGED <<impl, users, nupd, evt, optout, mtext, mkw, mres, fs, boot>>

\* bot.py sairgc 237-241: the first watched chat, in dict order, that the
\* argument names by id, by handle or by a piece of its title (0: none)
RECURSIVE FindChatFrom(_, _, _)
FindChatFrom(w, arg, i) ==
  IF i > Len(w) THEN 0
  ELSE IF \/ arg = str(w[i].id)
          \/ arg = w[i].username
          \/ In(lower(arg), lower(w[i].title))
       THEN w[i].id
       ELSE FindChatFrom(w, arg, i + 1)

FindChat(w, arg) == FindChatFrom(w, arg, 1)

\* /sairgc <raw>, up to bot.leave_chat(chat_id)
sairgc(raw) ==
  /\ impl = "bot"
  /\ CanHandle
  /\ LET arg == strip(raw)
         found == FindChat(watched, arg)
     IN IF arg = <<>>
        THEN /\ Handle(Event("sairgc", 0, 0, raw, "usage"))
             /\ tasks' = Reap(tasks)
        ELSE IF found = 0
        THEN /\ Handle(Event("sairgc", 0, 0, raw, "notfound"))
             /\ tasks' = Reap(tasks)
        ELSE /\ \E t \in Tasks :
                  /\ FreeSlot(t)
                  /\ tasks' = [Reap(tasks) EXCEPT ![t] =
                       [IdleTask EXCEPT !.kind = "sairgc", !.pc = "leave", !.chat = found]]
             /\ Handle(Event("sairgc", 0, found, raw, "pending"))
  /\ UNCHANGED <<users, watched, disk, optout>>

\* /sairgc: bot.leave_chat returned or raised (ignored); remove_watched_chat
sairgc_left(t, ok) ==
  /\ impl = "bot"
  /\ tasks[t].kind = "sairgc" /\ tasks[t].pc = "leave"
  /\ watched' = remove_watched_chat(watched, tasks[t].chat)
  /\ disk' = IF IsWatched(watched, tasks[t].chat) THEN Saved(users, watched') ELSE disk
  /\ tasks' = [tasks EXCEPT ![t] = EndTask(@, "done")]
  /\ UNCHANGED <<impl, users, nupd, evt, optout, mtext, mkw, mres, fs, boot>>

\* the chat ids of the watched chats, in iteration order
RECURSIVE ChatIdsOf(_)
ChatIdsOf(w) == IF w = <<>> THEN <<>> ELSE <<Head(w).id>> \o ChatIdsOf(Tail(w))

\* /sairgcall, up to the first bot.leave_chat: items = list(...items())
sairgcall ==
  /\ impl = "bot"
  /\ CanHandle
  /\ LET items == ChatIdsOf(watched)
     IN IF items = <<>>
        THEN /\ Handle(Event("sairgcall", 0, 0, <<>>, "none"))
             /\ tasks' = Reap(tasks)
        ELSE /\ \E t \in Tasks :
                  /\ FreeSlot(t)
                  /\ tasks' = [Reap(tasks) EXCEPT ![t] =
                       [IdleTask EXCEPT !.kind = "sairgcall", !.pc = "leave",
                                        !.uids = items, !.idx = 1, !.chat = items[1]]]
             /\ Handle(Event("sairgcall", 0, 0, <<>>, "pending"))
  /\ UNCHANGED <<users, watched, disk, optout>>

\* /sairgcall: bot.leave_chat(chat_id) returned or raised (ignored);
\* remove_watched_chat(chat_id); then the next item, or the reply
sairgcall_left(t, ok) ==
  /\ impl = "bot"
  /\ tasks[t].kind = "sairgcall" /\ tasks[t].pc = "leave"
  /\ LET chat_id == tasks[t].chat
         tk == [tasks[t] EXCEPT
                  !.out = Append(@, Sent(chat_id, "leave", <<>>, ok)),
                  !.gone = IF IsWatched(watched, chat_id) THEN @ \cup {chat_id} ELSE @]
     IN /\ watched' = remove_watched_chat(watched, chat_id)
        /\ disk' = IF IsWatched(watched, chat_id) THEN Saved(users, watched') ELSE disk
        /\ tasks' = [tasks EXCEPT ![t] =
                       IF tk.idx = Len(tk.uids) THEN EndTask(tk, "done")
                       ELSE [tk EXCEPT !.idx = @ + 1, !.chat = tk.uids[tk.idx + 1]]]
  /\ UNCHANGED <<impl, users, nupd, evt, optout, mtext, mkw, mres, fs, boot>>

\* --------------------------------------------- bot_webhook.py: handlers
\* get_subscribed_users(): SELECT user_id FROM users WHERE subscribed=1
RECURSIVE get_subscribed_users(_)
get_subscribed_users(us) ==
  IF us = <<>> THEN <<>>
  ELSE (IF Head(us).subscribed THEN <<Head(us).id>> ELSE <<>>)
       \o get_subscribed_users(Tail(us))

\* what the loop reads for user uid: it is in the list of subscribed users,
\* and get_keywords(uid) returns its rows now
WhRead(us, uid) == U(uid, TRUE, get_keywords(us, uid))

\* the records read for uids[i..j]
RECURSIVE WhReadRange(_, _, _, _)
WhReadRange(us, uids, i, j) ==
  IF i > j THEN <<>>
  ELSE <<WhRead(us, uids[i])>> \o WhReadRange(us, uids, i + 1, j)

\* the next user of the list, from position i on, with a keyword that matches
RECURSIVE WhNextServed(_, _, _, _)
WhNextServed(us, uids, i, text) ==
  IF i > Len(uids) THEN 0
  ELSE IF Matches(WhRead(us, uids[i]), text) THEN i
  ELSE WhNextServed(us, uids, i + 1, text)

\* bot_webhook.py: the for statement takes the next user id of the list
WhAdvance(tk, us) ==
  LET j == WhNextServed(us, tk.uids, tk.idx + 1, tk.text)
  IN IF j = 0
     THEN EndTask([tk EXCEPT !.seen = @ \o WhReadRange(us, tk.uids, tk.idx + 1, Len(tk.uids))],
                  "done")
     ELSE LET kws == get_keywords(us, tk.uids[j])
          IN [tk EXCEPT !.pc = "header", !.idx = j, !.to = tk.uids[j],
                        !.kw = kws[FirstMatch(tk.text, kws)],
                        !.seen = @ \o WhReadRange(us, tk.uids, tk.idx + 1, j)]

cmd_notifyme(u) ==
  /\ impl = "webhook"
  /\ CanHandle
  /\ users' = set_subscribed(users, u, TRUE)
  /\ optout' = optout \ {u}
  /\ tasks' = ObserveAll(Reap(tasks), users', optout')
  /\ Handle(Event("notifyme", u, 0, <<>>, "subscribed"))
  /\ UNCHANGED <<watched, disk>>

cmd_removeme(u) ==
  /\ impl = "webhook"
  /\ CanHandle
  /\ users' = set_subscribed(users, u, FALSE)
  /\ optout' = optout \cup {u}
  /\ tasks' = ObserveAll(Reap(tasks), users', optout)
  /\ Handle(Event("removeme", u, 0, <<>>, "unsubscribed"))
  /\ UNCHANGED <<watched, disk>>

cmd_addp(u, raw) ==
  /\ impl = "webhook"
  /\ CanHandle
  /\ LET keyword == strip(raw)
         r == add_keyword(users, u, keyword)
     IN IF keyword = <<>>
        THEN /\ Handle(Event("addp", u, 0, raw, "usage"))
             /\ tasks' = Reap(tasks)
             /\ UNCHANGED users
        ELSE /\ users' = r.users
             /\ tasks' = ObserveAll(Reap(tasks), r.users, optout)
             /\ Handle(Event("addp", u, 0, raw, IF r.ok THEN "added" ELSE "exists"))
  /\ UNCHANGED <<watched, disk, optout>>

cmd_listp(u) ==
  /\ impl = "webhook"
  /\ CanHandle
  /\ tasks' = Reap(tasks)
  /\ Handle(Event("listp", u, 0, <<>>, IF get_keywords(users, u) = <<>> THEN "none" ELSE "list"))
  /\ UNCHANGED <<users, watched, disk, optout>>

cmd_delp(u, raw) ==
  /\ impl = "webhook"
  /\ CanHandle
  /\ LET keyword == strip(raw)
         r == del_keyword(users, u, keyword)
     IN IF keyword = <<>>
        THEN /\ Handle(Event("delp", u, 0, raw, "usage"))
             /\ tasks' = Reap(tasks)
             /\ UNCHANGED users
        ELSE /\ users' = r.users
             /\ tasks' = ObserveAll(Reap(tasks), r.users, optout)
             /\ Handle(Event("delp", u, 0, raw, IF r.ok THEN "removed" ELSE "notfound"))
  /\ UNCHANGED <<watched, disk, optout>>

cmd_delpall(u) ==
  /\ impl = "webhook"
  /\ CanHandle
  /\ users' = del_all_keywords(users, u)
  /\ tasks' = ObserveAll(Reap(tasks), users', optout)
  /\ Handle(Event("delpall", u, 0, <<>>, "cleared"))
  /\ UNCHANGED <<watched, disk, optout>>

\* /addgc typed in the group or channel c
cmd_addgc(c) ==
  /\ impl = "webhook"
  /\ CanHandle
  /\ watched' = wh_add_watched_chat(watched, Chat(c))
  /\ tasks' = Reap(tasks)
  /\ Handle(Event("addgc", 0, c, <<>>, "registered"))
  /\ UNCHANGED <<users, disk, optout>>

\* /addgc typed in a private chat: only a reply
cmd_addgc_private ==
  /\ impl = "webhook"
  /\ CanHandle
  /\ tasks' = Reap(tasks)
  /\ Handle(Event("addgc", 0, 0, <<>>, "usage"))
  /\ UNCHANGED <<users, watched, disk, optout>>

\* bot_webhook.py cmd_sairgc 208-212: the first row, in rowid order, whose
\* id, title or @handle the argument equals (0: none)
RECURSIVE WhFindChatFrom(_, _, _)
WhFindChatFrom(w, arg, i) ==
  IF i > Len(w) THEN 0
  ELSE IF \/ str(w[i].id) = arg
          \/ lower(w[i].title) = lower(arg)
          \/ lower(<<"@">> \o w[i].username) = lower(arg)
       THEN w[i].id
       ELSE WhFindChatFrom(w, arg, i + 1)

WhFindChat(w, arg) == WhFindChatFrom(w, arg, 1)

cmd_sairgc(raw) ==
  /\ impl = "webhook"
  /\ CanHandle
  /\ LET arg == strip(raw)
         found == WhFindChat(watched, arg)
     IN IF arg = <<>>
        THEN /\ Handle(Event("sairgc", 0, 0, raw, "usage"))
             /\ tasks' = Reap(tasks)
        ELSE IF found = 0
        THEN /\ Handle(Event("sairgc", 0, 0, raw, "notfound"))
             /\ tasks' = Reap(tasks)
        ELSE /\ \E t \in Tasks :
                  /\ FreeSlot(t)
                  /\ tasks' = [Reap(tasks) EXCEPT ![t] =
                       [IdleTask EXCEPT !.kind = "sairgc", !.pc = "leave", !.chat = found]]
             /\ Handle(Event("sairgc", 0, found, raw, "pending"))
  /\ UNCHANGED <<users, watched, disk, optout>>

cmd_sairgc_left(t, ok) ==
  /\ impl = "webhook"
  /\ tasks[t].kind = "sairgc" /\ tasks[t].pc = "leave"
  /\ watched' = remove_watched_chat(watched, tasks[t].chat)
  /\ tasks' = [tasks EXCEPT ![t] = EndTask(@, "done")]
  /\ UNCHANGED <<impl, users, disk, nupd, evt, optout, mtext, mkw, mres, fs, boot>>

\* /sairgcall, up to the first bot.leave_chat: rows = list_watched_chats();
\* without rows remove_all_watched_chats() and the reply follow at once
cmd_sairgcall ==
  /\ impl = "webhook"
  /\ CanHandle
  /\ LET rows == ChatIdsOf(watched)
     IN IF rows = <<>>
        THEN /\ Handle(Event("sairgcall", 0, 0, <<>>, "left"))
             /\ tasks' = Reap(tasks)
        ELSE /\ \E t \in Tasks :
                  /\ FreeSlot(t)
                  /\ tasks' = [Reap(tasks) EXCEPT ![t] =
                       [IdleTask EXCEPT !.kind = "sairgcall", !.pc = "leave",
                                        !.uids = rows, !.idx = 1, !.chat = rows[1]]]
             /\ Handle(Event("sairgcall", 0, 0, <<>>, "pending"))
  /\ UNCHANGED <<users, watched, disk, optout>>

\* bot_webhook.py remove_all_watched_chats: DELETE FROM watched_chats
remove_all_watched_chats(w) == <<>>

\* /sairgcall: bot.leave_chat(cid) returned or raised (ignored); then the
\* next row, or remove_all_watched_chats() and the reply
cmd_sairgcall_left(t, ok) ==
  /\ impl = "webhook"
  /\ tasks[t].kind = "sairgcall" /\ tasks[t].pc = "leave"
  /\ LET tk == [tasks[t] EXCEPT !.out = Append(@, Sent(tasks[t].chat, "leave", <<>>, ok))]
     IN IF tk.idx = Len(tk.uids)
        THEN /\ watched' = remove_all_watched_chats(watched)
             /\ tasks' = [tasks EXCEPT ![t] =
                   EndTask([tk EXCEPT !.gone = {watched[i].id : i \in 1..Len(watched)}],
                           "done")]
        ELSE /\ watched' = watched
             /\ tasks' = [tasks EXCEPT ![t] =
                   [tk EXCEPT !.idx = @ + 1, !.chat = tk.uids[tk.idx + 1]]]
  /\ UNCHANGED <<impl, users, disk, nupd, evt, optout, mtext, mkw, mres, fs, boot>>

\* on_message, up to its first await
wh_on_message(c, text) ==
  /\ impl = "webhook"
  /\ CanHandle
  /\ IF ~IsWatched(watched, c) \/ text = <<>>
     THEN /\ Handle(Event("message", 0, c, text, "ignored"))
          /\ tasks' = Reap(tasks)
     ELSE /\ \E t \in Tasks :
               /\ FreeSlot(t)
               /\ tasks' = [Reap(tasks) EXCEPT ![t] =
                    WhAdvance([IdleTask EXCEPT !.kind = "on_message", !.chat = c,
                                 !.text = text, !.uids = get_subscribed_users(users),
                                 !.elig = Eligible(users, text), !.off = optout,
                    !.unsub = NotSubscribed(users)],
                              users)]
          /\ Handle(Event("message", 0, c, text, "dispatch"))
  /\ UNCHANGED <<users, watched, disk, optout>>

\* on_message: bot.send_message(header) returns (ok) or raises (logged)
wh_on_message_header(t, ok) ==
  /\ impl = "webhook"
  /\ tasks[t].kind = "on_message" /\ tasks[t].pc = "header"
  /\ LET tk == [tasks[t] EXCEPT !.out = Append(@, Sent(tasks[t].to, "header", tasks[t].kw, ok))]
     IN tasks' = [tasks EXCEPT ![t] =
                    IF ok THEN [tk EXCEPT !.pc = "forward"]
                    ELSE WhAdvance([tk EXCEPT !.failed = @ \cup {tk.to}], users)]
  /\ UNCHANGED <<impl, users, watched, disk, nupd, evt, optout, mtext, mkw, mres, fs, boot>>

\* on_message: bot.forward_message returns (ok) or raises (logged)
wh_on_message_forward(t, ok) ==
  /\ impl = "webhook"
  /\ tasks[t].kind = "on_message" /\ tasks[t].pc = "forward"
  /\ LET tk == [tasks[t] EXCEPT !.out = Append(@, Sent(tasks[t].to, "forward", tasks[t].kw, ok))]
     IN tasks' = [tasks EXCEPT ![t] =
                    WhAdvance(IF ok THEN tk ELSE [tk EXCEPT !.failed = @ \cup {tk.to}], users)]
  /\ UNCHANGED <<impl, users, watched, disk, nupd, evt, optout, mtext, mkw, mres, fs, boot>>

\* ------------------------------------------- bot.py: save_db and load_db
\* f.write calls one json.dump makes; a crash or an I/O error can come
\* between any two of them
MaxWrites == 2
\* save_db calls in one run
MaxSaves == 2

DB_PATH == "db.json"
DB_TXT == "db.txt"
Paths == {"db.json", "db.json.tmp", "db.txt"}

\* load_db 39: the default structure {"users": {}, "watched_chats": {}}
EmptyDb == Saved(<<>>, <<>>)

\* a file: the db whose JSON text is being written to it and how many of the
\* MaxWrites pieces of that text it holds
Absent == [exists |-> FALSE, data |-> EmptyDb, n |-> 0]
File(d, n) == [exists |-> TRUE, data |-> d, n |-> n]

\* json.load(f) returns when the whole text is there and raises otherwise
Parses(f) == f.n = MaxWrites

\* the value load_db returned, or that it raised
Loaded(d) == [ok |-> TRUE, db |-> d]
LoadRaised == [ok |-> FALSE, db |-> EmptyDb]

\* load_db(): db.json when it exists (json.load may raise), else db.txt when
\* it exists and parses, else the default structure
load_db(files) ==
  IF files[DB_PATH].exists
  THEN (IF Parses(files[DB_PATH]) THEN Loaded(files[DB_PATH].data) ELSE LoadRaised)
  ELSE IF files[DB_TXT].exists /\ Parses(files[DB_TXT])
       THEN Loaded(files[DB_TXT].data)
       ELSE Loaded(EmptyDb)

\* a slip: the text is written to db.json itself
tmp_inplace == DB_PATH

\* save_db 42: tmp = DB_PATH + ".tmp"
tmp == "db.json.tmp"

\* open(path, "w"): the file is created or truncated
open_w(files, path, d) == [files EXCEPT ![path] = File(d, 0)]

\* one more piece of the text reaches the file
write(files, path) == [files EXCEPT ![path].n = @ + 1]

\* os.replace(src, dst): dst is now the file src was, in one step
os_replace(files, src, dst) ==
  IF src = dst THEN files
  ELSE [files EXCEPT ![dst] = files[src], ![src] = Absent]

\* no save_db in progress.  arg: the db passed to the last save_db call;
\* before: what load_db would have returned when that call began; at: where
\* the process was when it died last ("none": it has not, since that call);
\* loaded: what load_db did on the restart
FsIdle ==
  [files |-> [p \in Paths |-> Absent], pc |-> "idle", arg |-> EmptyDb,
   before |-> EmptyDb, at |-> "none", loaded |-> Loaded(EmptyDb), nsave |-> 0]

Saving == {"dump_tmp", "replace", "open_txt", "dump_txt"}

\* a handler has changed the in-memory db to d and calls save_db(db);
\* save_db 43: open(tmp, "w")
save_db_open_tmp(d) ==
  /\ fs.pc = "idle"
  /\ fs.nsave < MaxSaves
  /\ users' = d.users /\ watched' = d.watched
  /\ fs' = [fs EXCEPT !.files = open_w(fs.files, tmp, d), !.pc = "dump_tmp",
                      !.arg = d, !.before = load_db(fs.files).db,
                      !.at = "none", !.nsave = @ + 1]
  /\ UNCHANGED <<impl, disk, tasks, nupd, evt, optout, mtext, mkw, mres, boot>>

\* save_db 44: json.dump(db, f) writes the next piece; the with block closes
\* the file after the last one
save_db_dump_tmp ==
  /\ fs.pc = "dump_tmp"
  /\ LET files1 == write(fs.files, tmp)
     IN fs' = [fs EXCEPT !.files = files1,
                         !.pc = IF files1[tmp].n = MaxWrites THEN "replace" ELSE "dump_tmp"]
  /\ UNCHANGED <<impl, users, watched, disk, tasks, nupd, evt, optout, mtext, mkw, mres, boot>>

\* save_db 45: os.replace(tmp, DB_PATH)
save_db_replace ==
  /\ fs.pc = "replace"
  /\ fs' = [fs EXCEPT !.files = os_replace(fs.files, tmp, DB_PATH), !.pc = "open_txt"]
  /\ disk' = fs'.files[DB_PATH].data
  /\ UNCHANGED <<impl, users, watched, tasks, nupd, evt, optout, mtext, mkw, mres, boot>>

\* save_db 47: open(DB_TXT, "w")
save_db_open_txt ==
  /\ fs.pc = "open_txt"
  /\ fs' = [fs EXCEPT !.files = open_w(fs.files, DB_TXT, fs.arg), !.pc = "dump_txt"]
  /\ UNCHANGED <<impl, users, watched, disk, tasks, nupd, evt, optout, mtext, mkw, mres, boot>>

\* save_db 48: json.dump(db, f) writes the next piece; save_db returns after
\* the last one
save_db_dump_txt ==
  /\ fs.pc = "dump_txt"
  /\ LET files1 == write(fs.files, DB_TXT)
     IN fs' = [fs EXCEPT !.files = files1,
                         !.pc = IF files1[DB_TXT].n = MaxWrites THEN "idle" ELSE "dump_txt"]
  /\ UNCHANGED <<impl, users, watched, disk, tasks, nupd, evt, optout, mtext, mkw, mres, boot>>

\* the step save_db is at raises OSError: the files stay as they are, the
\* exception leaves save_db and the handler, the process goes on
save_db_raises ==
  /\ fs.pc \in Saving
  /\ fs' = [fs EXCEPT !.pc = "idle"]
  /\ UNCHANGED <<impl, users, watched, disk, tasks, nupd, evt, optout, mtext, mkw, mres, boot>>

\* the process dies where it is and is started again; bot.py 50: db = load_db().
\* When load_db raises the process does not come up.
crash_restart ==
  /\ fs.pc \in Saving \cup {"idle"}
  /\ LET r == load_db(fs.files)
     IN /\ fs' = [fs EXCEPT !.pc = IF r.ok THEN "idle" ELSE "dead",
                            !.at = fs.pc, !.loaded = r]
        /\ users' = IF r.ok THEN r.db.users ELSE users
        /\ watched' = IF r.ok THEN r.db.watched ELSE watched
  /\ UNCHANGED <<impl, disk, tasks, nupd, evt, optout, mtext, mkw, mres, boot>>

\* ------------------------------- bot_webhook.py: startup and /webhook
\* POST /webhook requests in one run
MaxRequests == 2

\* bot_webhook.py 34, 35: the defaults
SETWEBHOOK_MAX_RETRIES == 6
SETWEBHOOK_INITIAL_BACKOFF == 1
\* 297: for attempt in range(1, 6)
ReinitAttempts == 5
\* 298: wait = min(60, 2 ** attempt)
MaxWait == 60

RECURSIVE Pow2(_)
Pow2(n) == IF n = 0 THEN 1 ELSE 2 * Pow2(n - 1)

Min(a, b) == IF a < b THEN a ELSE b

\* 264: application = Application.builder()...build(), at import.  The builder
\* hands the Application its update_queue (an empty asyncio.Queue) when it
\* constructs it, in every python-telegram-bot that has concurrent_updates on
\* the builder; initialize() and start() do not create it.
\* The startup task: pc is the await it is suspended on, attempt the loop
\* variable, backoff the local of the set_webhook loop.
\* Observations: inits, hooks: initialize/start and set_webhook attempts begun
\* and made; waits, slept: the sleeps of the two loops that have returned;
\* started: initialize() and start() have both returned; status: the answer to
\* the last POST /webhook.
BootIdle ==
  [pc |-> "off", attempt |-> 0, backoff |-> 0,
   has_queue |-> TRUE, update_queue |-> <<>>,
   started |-> FALSE, webhook_set |-> FALSE,
   inits |-> 0, hooks |-> 0, waits |-> <<>>, slept |-> <<>>,
   status |-> 0, nreq |-> 0]

BootUnchanged ==
  UNCHANGED <<impl, users, watched, disk, tasks, nupd, evt, optout, mtext, mkw, mres, fs>>

\* 355-356: application_ready()
application_ready(app) == app.has_queue

\* 328-333: on_startup creates the task; it runs up to application.initialize()
on_startup ==
  /\ boot.pc = "off"
  /\ boot' = [boot EXCEPT !.pc = "initialize", !.inits = 1]
  /\ BootUnchanged

\* 293-310: the except branch of an initialize/start attempt: the next
\* attempt of the for loop after a sleep, or its else branch and return
InitFailed(b) ==
  IF b.attempt = ReinitAttempts THEN [b EXCEPT !.pc = "returned"]
  ELSE [b EXCEPT !.pc = "reinit_sleep", !.attempt = @ + 1]

\* 313-314: backoff = SETWEBHOOK_INITIAL_BACKOFF; the first turn of the
\* set_webhook loop, when the range is not empty
EnterWebhookLoop(b) ==
  IF SETWEBHOOK_MAX_RETRIES < 1 THEN [b EXCEPT !.pc = "returned"]
  ELSE [b EXCEPT !.pc = "set_webhook", !.attempt = 1,
                 !.backoff = SETWEBHOOK_INITIAL_BACKOFF]

\* 291 / 302: application.initialize() returns (ok) or raises
app_initialize(ok) ==
  /\ boot.pc = "initialize"
  /\ boot' = IF ok THEN [boot EXCEPT !.pc = "start"] ELSE InitFailed(boot)
  /\ BootUnchanged

\* 292 / 303: application.start() returns (ok) or raises
app_start(ok) ==
  /\ boot.pc = "start"
  /\ boot' = IF ok THEN EnterWebhookLoop([boot EXCEPT !.started = TRUE])
             ELSE InitFailed(boot)
  /\ BootUnchanged

\* 298-300: asyncio.sleep(min(60, 2 ** attempt)) returns
reinit_slept ==
  /\ boot.pc = "reinit_sleep"
  /\ boot' = [boot EXCEPT !.pc = "initialize", !.inits = @ + 1,
                          !.waits = Append(@, Min(MaxWait, Pow2(boot.attempt)))]
  /\ BootUnchanged

\* a slip: the backoff stays what it was
NextBackoff_same(b) == b

\* 326: backoff = backoff * 2
NextBackoff(b) == b * 2

\* 317-325: application.bot.set_webhook returns (ok) or raises
set_webhook(ok) ==
  /\ boot.pc = "set_webhook"
  /\ boot' = IF ok
             THEN [boot EXCEPT !.hooks = @ + 1, !.webhook_set = TRUE, !.pc = "returned"]
             ELSE [boot EXCEPT !.hooks = @ + 1,
                               !.pc = IF boot.attempt = SETWEBHOOK_MAX_RETRIES
                                      THEN "returned" ELSE "backoff_sleep"]
  /\ BootUnchanged

\* 325-326: asyncio.sleep(backoff) returns; the next turn of the loop
backoff_slept ==
  /\ boot.pc = "backoff_sleep"
  /\ boot' = [boot EXCEPT !.pc = "set_webhook", !.attempt = @ + 1,
                          !.slept = Append(@, boot.backoff),
                          !.backoff = NextBackoff(boot.backoff)]
  /\ BootUnchanged

\* 358-372: POST /webhook with a body that is JSON (json_ok) or is not
webhook_entry(json_ok) ==
  /\ boot.pc # "off"
  /\ boot.nreq < MaxRequests
  /\ boot' = IF ~application_ready(boot)
             THEN [boot EXCEPT !.nreq = @ + 1, !.status = 503]
             ELSE IF ~json_ok
             THEN [boot EXCEPT !.nreq = @ + 1, !.status = 400]
             ELSE [boot EXCEPT !.nreq = @ + 1, !.status = 200,
                               !.update_queue = Append(@, boot.nreq + 1)]
  /\ BootUnchanged

\* --------------------------------------------------------- initial states
\* what load_db() / the SQLite file can hold when the process starts
InitStores ==
  { [users |-> <<>>, watched |-> <<>>],
    [users |-> <<U(1, TRUE, <<Ka>>), U(2, TRUE, <<Kbb, Kba, Ka>>)>>,
     watched |-> <<Chat(1)>>],
    [users |-> <<U(1, FALSE, <<Ka>>), U(2, TRUE, <<Kba>>)>>,
     watched |-> <<Chat(1), Chat(2)>>] }

NoEvent == Event("none", 0, 0, <<>>, "none")

Init ==
  /\ impl \in {"bot", "webhook"}
  /\ \E st \in InitStores :
       /\ users = st.users
       /\ watched = st.watched
       /\ disk = Saved(st.users, st.watched)
  /\ tasks = [t \in Tasks |-> IdleTask]
  /\ nupd = 0
  /\ evt = NoEvent
  /\ optout = {}
  /\ mtext = <<>> /\ mkw = <<>> /\ mres = <<>>
  /\ fs = FsIdle
  /\ boot = BootIdle

BotNext ==
  \/ \E u \in UserIds : notifyme(u) \/ removeme(u) \/ listp(u) \/ delpall(u)
  \/ \E u \in UserIds, raw \in RawArgs : addp(u, raw) \/ delp(u, raw)
  \/ \E c \in ChatIds, text \in Texts : on_message(c, text)
  \/ \E t \in Tasks, ok \in BOOLEAN :
       on_message_header(t, ok) \/ on_message_forward(t, ok) \/ on_message_probe(t, ok)
  \/ \E c \in ChatIds : addgc(c)
  \/ \E raw \in ChatArgs : addgc_private(raw) \/ sairgc(raw)
  \/ \E t \in Tasks, res \in ChatIds \cup {0} : addgc_get_chat(t, res)
  \/ \E t \in Tasks, ok \in BOOLEAN : sairgc_left(t, ok)
  \/ sairgcall
  \/ \E t \in Tasks, ok \in BOOLEAN : sairgcall_left(t, ok)

WebhookNext ==
  \/ \E u \in UserIds : cmd_notifyme(u) \/ cmd_removeme(u) \/ cmd_listp(u) \/ cmd_delpall(u)
  \/ \E u \in UserIds, raw \in RawArgs : cmd_addp(u, raw) \/ cmd_delp(u, raw)
  \/ \E c \in ChatIds, text \in Texts : wh_on_message(c, text)
  \/ \E t \in Tasks, ok \in BOOLEAN : wh_on_message_header(t, ok) \/ wh_on_message_forward(t, ok)
  \/ \E c \in ChatIds : cmd_addgc(c)
  \/ cmd_addgc_private
  \/ \E raw \in ChatArgs : cmd_sairgc(raw)
  \/ \E t \in Tasks, ok \in BOOLEAN : cmd_sairgc_left(t, ok)
  \/ cmd_sairgcall
  \/ \E t \in Tasks, ok \in BOOLEAN : cmd_sairgcall_left(t, ok)

Next == BotNext \/ WebhookNext

Spec == Init /\ [][Next]_vars


\* ------------------------------------------------- the matcher on its own
\* characters the matcher is tried on
Alphabet == {"a", "b", "AA", " ", "^"}

RECURSIVE StringsOfLen(_)
StringsOfLen(n) ==
  IF n = 0 THEN {<<>>}
  ELSE {Append(s, ch) : s \in StringsOfLen(n - 1), ch \in Alphabet}

Strings == UNION {StringsOfLen(n) : n \in 0..MaxLen}

InitMatch ==
  /\ impl = "bot"
  /\ users = <<>> /\ watched = <<>> /\ disk = Saved(<<>>, <<>>)
  /\ tasks = [t \in Tasks |-> IdleTask]
  /\ nupd = 0 /\ evt = NoEvent /\ optout = {}
  /\ mtext \in Strings
  /\ mkw \in Strings
  /\ mres = <<>>
  /\ fs = FsIdle
  /\ boot = BootIdle

\* mres = <<text_contains_all_tokens(mtext, mkw)>>
Match ==
  /\ mres = <<>>
  /\ mres' = <<text_contains_all_tokens(mtext, mkw)>>
  /\ UNCHANGED <<impl, users, watched, disk, tasks, nupd, evt, optout, mtext, mkw, fs, boot>>

NextMatch == Match

SpecMatch == InitMatch /\ [][NextMatch]_vars

\* ------------------------------------------------- save_db on its own
\* the dbs the handlers pass to save_db
DbValues == {Saved(st.users, st.watched) : st \in InitStores}

\* the files bot.py can find when it starts: none (first run), db.json and
\* db.txt as a completed save_db left them, or db.txt alone (the fallback)
InitFiles ==
  {[p \in Paths |-> Absent]}
  \cup {[p \in Paths |-> IF p = "db.json.tmp" THEN Absent ELSE File(d, MaxWrites)] :
          d \in DbValues}
  \cup {[p \in Paths |-> IF p = DB_TXT THEN File(d, MaxWrites) ELSE Absent] :
          d \in DbValues}

InitSave ==
  /\ impl = "bot"
  /\ \E files \in InitFiles :
       LET d == load_db(files).db
       IN /\ users = d.users /\ watched = d.watched /\ disk = d
          /\ fs = [FsIdle EXCEPT !.files = files, !.arg = d, !.before = d,
                                 !.loaded = Loaded(d)]
  /\ tasks = [t \in Tasks |-> IdleTask]
  /\ nupd = 0 /\ evt = NoEvent /\ optout = {}
  /\ mtext = <<>> /\ mkw = <<>> /\ mres = <<>>
  /\ boot = BootIdle

NextSave ==
  \/ \E d \in DbValues : save_db_open_tmp(d)
  \/ save_db_dump_tmp
  \/ save_db_replace
  \/ save_db_open_txt
  \/ save_db_dump_txt
  \/ save_db_raises
  \/ crash_restart

SpecSave == InitSave /\ [][NextSave]_vars

\* ------------------------------------ bot_webhook.py: startup on its own
InitBoot ==
  /\ impl = "webhook"
  /\ users = <<>> /\ watched = <<>> /\ disk = Saved(<<>>, <<>>)
  /\ tasks = [t \in Tasks |-> IdleTask]
  /\ nupd = 0 /\ evt = NoEvent /\ optout = {}
  /\ mtext = <<>> /\ mkw = <<>> /\ mres = <<>>
  /\ fs = FsIdle
  /\ boot = BootIdle

\* the steps of the startup task
BootTask ==
  \/ on_startup
  \/ \E ok \in BOOLEAN : app_initialize(ok)
  \/ \E ok \in BOOLEAN : app_start(ok)
  \/ reinit_slept
  \/ \E ok \in BOOLEAN : set_webhook(ok)
  \/ backoff_slept

NextBoot ==
  \/ BootTask
  \/ \E json_ok \in BOOLEAN : webhook_entry(json_ok)

\* the event loop runs the startup task whenever the call it awaits has
\* returned or raised, and every such call does one or the other
SpecBoot == InitBoot /\ [][NextBoot]_vars /\ WF_vars(BootTask)

\* ----------------------------------------------------------------- claims
\* the subscribed flag and the keyword list of user u (a user without a
\* record is not subscribed and has no keywords)
SubOf(us, u) == IndexOf(us, u) # 0 /\ us[IndexOf(us, u)].subscribed
KwOf(us, u) == IF IndexOf(us, u) = 0 THEN <<>> ELSE us[IndexOf(us, u)].keywords

Elems(l) == {l[i] : i \in 1..Len(l)}
MinOf(S) == CHOOSE x \in S : \A y \in S : x <= y
MaxOf(S) == CHOOSE x \in S : \A y \in S : x >= y

\* the argument is empty or blank
Blank(raw) == \A i \in 1..Len(raw) : raw[i] \in Whitespace

\* the argument without the whitespace around it
Trimmed(raw) ==
  LET ink == {i \in 1..Len(raw) : raw[i] \notin Whitespace}
  IN IF ink = {} THEN <<>> ELSE SubSeq(raw, MinOf(ink), MaxOf(ink))

\* positions of the keywords of kws that match text
MatchIdx(text, kws) == {i \in 1..Len(kws) : text_contains_all_tokens(text, kws[i])}

\* an update was handled in this step
Handled == nupd' = nupd + 1

\* the dispatch passes, and the user a pass is calling out to
IsPass(tk) == tk.kind = "on_message"
InFlight(tk, u) == tk.pc \in {"header", "forward", "probe"} /\ tk.to = u

\* the header and forward calls of a pass to user u that have returned
Calls(tk, u) ==
  LET o == SelectSeq(tk.out, LAMBDA e : e.to = u /\ e.what # "probe")
  IN [i \in 1..Len(o) |-> <<o[i].what, o[i].kw, o[i].ok>>]

\* C1: a message from a chat that is not in the watched-chat set when it is
\* handled starts no dispatch: no header is sent and nothing is forwarded,
\* whatever its text matches.
C1_Unwatched ==
  [][(/\ Handled
      /\ evt'.cmd = "message"
      /\ ~(\E i \in 1..Len(watched) : watched[i].id = evt'.chat))
     => \A t \in Tasks :
          (tasks'[t].pc \in {"header", "forward", "probe"} \/ tasks'[t].out # <<>>)
            => tasks'[t] = tasks[t]]_vars

\* a message whose text matches a keyword of every subscribed user came from
\* a chat that is not watched
C1_Witness ==
  /\ evt.cmd = "message" /\ evt.reply = "ignored" /\ evt.text # <<>>
  /\ \A i \in 1..Len(watched) : watched[i].id # evt.chat
  /\ \E u \in UserIds : SubOf(users, u)
  /\ \A u \in UserIds : SubOf(users, u) => MatchIdx(evt.text, KwOf(users, u)) # {}

\* C2: in one pass a subscribed user with at least one matching keyword gets
\* one header naming the first matching keyword in stored order and then one
\* forward (the forward only after the header went through); a user with no
\* matching keyword gets nothing; no user is served twice.
C2_OneNotification ==
  \A t \in Tasks :
    LET tk == tasks[t]
    IN IsPass(tk) =>
         /\ \A i, j \in 1..Len(tk.seen) : tk.seen[i].id = tk.seen[j].id => i = j
         /\ Attempted(tk.out) \subseteq {tk.seen[i].id : i \in 1..Len(tk.seen)}
         /\ \A i \in 1..Len(tk.seen) :
              LET r == tk.seen[i]
                  o == Calls(tk, r.id)
                  M == MatchIdx(tk.text, r.keywords)
              IN IF r.subscribed /\ M # {}
                 THEN LET k == r.keywords[MinOf(M)]
                      IN IF InFlight(tk, r.id)
                         THEN /\ tk.kw = k
                              /\ tk.pc = "header" => o = <<>>
                              /\ tk.pc = "forward" => o = << <<"header", k, TRUE>> >>
                              /\ tk.pc = "probe" =>
                                   o \in { << <<"header", k, FALSE>> >>,
                                           << <<"header", k, TRUE>>, <<"forward", k, FALSE>> >> }
                         ELSE o \in { << <<"header", k, TRUE>>, <<"forward", k, TRUE>> >>,
                                      << <<"header", k, TRUE>>, <<"forward", k, FALSE>> >>,
                                      << <<"header", k, FALSE>> >> }
                 ELSE o = <<>> /\ ~InFlight(tk, r.id)

\* a pass is over in which a user with two matching keywords, the first of
\* them not the first of the list, got the header for it and the forward
C2_Witness ==
  \E t \in Tasks :
    /\ IsPass(tasks[t]) /\ tasks[t].pc = "done"
    /\ \E i \in 1..Len(tasks[t].seen) :
         LET r == tasks[t].seen[i]
             M == MatchIdx(tasks[t].text, r.keywords)
         IN /\ Cardinality(M) >= 2
            /\ MinOf(M) > 1
            /\ Calls(tasks[t], r.id) =
                 << <<"header", r.keywords[MinOf(M)], TRUE>>,
                    <<"forward", r.keywords[MinOf(M)], TRUE>> >>

\* the pass has just dealt with a failed delivery to user u
NewlyFailed(t, u) ==
  /\ IsPass(tasks[t]) /\ tasks[t].pc \notin Ended
  /\ u \in tasks'[t].failed \ tasks[t].failed

\* a failed delivery is not tried again in the pass, and a user who has not
\* been subscribed since the message came is not called
NoRetry ==
  \A t \in Tasks :
    LET tk == tasks[t]
    IN IsPass(tk) =>
         \A u \in UserIds :
           /\ Cardinality({i \in 1..Len(tk.out) : tk.out[i].to = u /\ tk.out[i].what = "header"}) <= 1
           /\ \A i, j \in 1..Len(tk.out) :
                (/\ i < j /\ tk.out[i].to = u /\ tk.out[j].to = u
                 /\ ~tk.out[i].ok) => tk.out[j].what = "probe"
           /\ u \in tk.unsub => u \notin Attempted(tk.out) /\ ~InFlight(tk, u)

C4_Independent ==
  \A t \in Tasks :
    (IsPass(tasks[t]) /\ tasks[t].pc \in {"done", "aborted"}) => tasks[t].missed = {}

\* C5: a user who opted out with /removeme before a message came, and has not
\* sent /notifyme since, gets no header and no forward for it; /removeme
\* leaves every keyword list as it was.
C5_OptedOut ==
  /\ [](\A t \in Tasks :
          IsPass(tasks[t]) =>
            \A u \in tasks[t].off : u \notin Attempted(tasks[t].out) /\ ~InFlight(tasks[t], u))
  /\ [][(Handled /\ evt'.cmd = "removeme") =>
          /\ ~SubOf(users', evt'.user)
          /\ \A u \in UserIds : KwOf(users', u) = KwOf(users, u)]_vars

\* a pass is over for a message that matches a keyword of a user who had
\* opted out before it came
C5_Witness ==
  \E t \in Tasks :
    /\ IsPass(tasks[t]) /\ tasks[t].pc = "done"
    /\ tasks[t].out # <<>>
    /\ \E u \in tasks[t].off : MatchIdx(tasks[t].text, KwOf(users, u)) # {}

NoDup(l) == \A i, j \in 1..Len(l) : l[i] = l[j] => i = j

\* C6: no keyword list holds the same phrase twice; /addp of a phrase that is
\* in the caller's list answers "already exists" and leaves the store as it
\* is; /addp of a new phrase appends it to the end of the caller's list.
C6_NoDuplicates ==
  /\ [](\A i \in 1..Len(users) : NoDup(users[i].keywords))
  /\ [][(Handled /\ evt'.cmd = "addp" /\ ~Blank(evt'.text)) =>
          LET u == evt'.user
              k == Trimmed(evt'.text)
          IN IF k \in Elems(KwOf(users, u))
             THEN /\ evt'.reply = "exists"
                  /\ users' = users /\ watched' = watched /\ disk' = disk
             ELSE /\ evt'.reply = "added"
                  /\ KwOf(users', u) = Append(KwOf(users, u), k)
                  /\ \A v \in UserIds \ {u} : KwOf(users', v) = KwOf(users, v)
                  /\ \A v \in UserIds : SubOf(users', v) = SubOf(users, v)]_vars

\* a phrase was added a second time
C6_Witness ==
  /\ evt.cmd = "addp" /\ evt.reply = "exists"
  /\ Trimmed(evt.text) \in Elems(KwOf(users, evt.user))

\* the update is a command without the argument it needs
ValidationError(e) ==
  \/ e.cmd \in {"addp", "delp", "sairgc"} /\ Blank(e.text)
  \/ e.cmd = "addgc" /\ e.chat = 0 /\ Blank(e.text)

\* C8: /addp, /delp and /sairgc with an empty or blank argument, and /addgc
\* without argument in a private chat, are answered with the usage text and
\* leave the store as it is; no empty or blank phrase is ever stored.
C8_Validation ==
  /\ [](\A i \in 1..Len(users) : \A k \in Elems(users[i].keywords) : ~Blank(k))
  /\ [][(Handled /\ ValidationError(evt')) =>
          /\ evt'.reply = "usage"
          /\ users' = users /\ watched' = watched /\ disk' = disk]_vars

\* /addp with a blank argument was turned down
C8_Witness ==
  /\ evt.cmd = "addp" /\ evt.text = <<" ">> /\ evt.reply = "usage"

\* C9: /delp of a phrase that is not in the caller's list (the caller may
\* have no record yet) and /sairgc of an argument that names no watched chat
\* are answered "not found" and leave the store as it is.
C9_NotFound ==
  [][(/\ Handled
      /\ \/ /\ evt'.cmd = "delp" /\ ~Blank(evt'.text)
            /\ Trimmed(evt'.text) \notin Elems(KwOf(users, evt'.user))
         \/ evt'.cmd = "sairgc" /\ evt'.reply = "notfound")
     => /\ evt'.reply = "notfound"
        /\ users' = users /\ watched' = watched]_vars

\* the store as the commands see it: each user's flag and keyword list
View(us) == [u \in UserIds |-> [subscribed |-> SubOf(us, u), keywords |-> KwOf(us, u)]]

\* what the command of update e does to the records, applied on its own
Apply(V, e) ==
  LET u == e.user
      k == Trimmed(e.text)
  IN CASE e.cmd = "notifyme" -> [V EXCEPT ![u].subscribed = TRUE]
       [] e.cmd = "removeme" -> [V EXCEPT ![u].subscribed = FALSE]
       [] e.cmd = "addp" /\ k # <<>> /\ k \notin Elems(V[u].keywords)
            -> [V EXCEPT ![u].keywords = Append(@, k)]
       [] e.cmd = "delp" /\ k # <<>>
            -> [V EXCEPT ![u].keywords = SelectSeq(@, LAMBDA x : x # k)]
       [] e.cmd = "delpall" -> [V EXCEPT ![u].keywords = <<>>]
       [] OTHER -> V

\* C10: every step that writes subscriber records applies one mutation to the
\* records as they are at that moment: a command's mutation when the command
\* is handled, or the unsubscription of the user a pass failed to reach; so
\* the store is always the result of the mutations so far, one after another.
C10_Serial ==
  [][IF Handled
     THEN View(users') = Apply(View(users), evt')
     ELSE \/ View(users') = View(users)
          \/ \E t \in Tasks :
               /\ IsPass(tasks[t]) /\ tasks[t].pc = "probe"
               /\ View(users') = [View(users) EXCEPT ![tasks[t].to].subscribed = FALSE]]_vars

\* bot.py: a pass unsubscribed a user whose keyword list a command had
\* changed while the pass was suspended
C10_Witness ==
  \E t \in Tasks, u \in UserIds :
    /\ impl = "bot" /\ IsPass(tasks[t])
    /\ u \in tasks[t].failed /\ ~SubOf(users, u)
    /\ \E i \in 1..Len(tasks[t].seen) :
         tasks[t].seen[i].id = u /\ tasks[t].seen[i].keywords # KwOf(users, u)
    /\ \E i \in 1..Len(tasks[t].out) : tasks[t].out[i].what = "probe" /\ ~tasks[t].out[i].ok

\* the whitespace-separated tokens of s: its maximal runs without whitespace
TokenSet(s) ==
  {SubSeq(s, p[1], p[2]) :
     p \in {q \in (1..Len(s)) \X (1..Len(s)) :
              /\ q[1] <= q[2]
              /\ \A k \in q[1]..q[2] : s[k] \notin Whitespace
              /\ q[1] = 1 \/ s[q[1] - 1] \in Whitespace
              /\ q[2] = Len(s) \/ s[q[2] + 1] \in Whitespace}}

\* tok is a contiguous piece of t
IsSubstring(tok, t) ==
  \E i \in 0..Len(t) : \E j \in i..Len(t) : SubSeq(t, i + 1, j) = tok

\* C7: text_contains_all_tokens(text, keyword) is true exactly when every
\* whitespace-separated token of normalize(keyword) is a contiguous substring
\* of normalize(text); a keyword without tokens matches every text.
C7_AllTokens ==
  mres # <<>> =>
    /\ mres[1] = (\A tok \in TokenSet(normalize(mkw)) : IsSubstring(tok, normalize(mtext)))
    /\ TokenSet(normalize(mkw)) = {} => mres[1]

\* two tokens found in the other order, inside one word, under case and accent
C7_Witness ==
  /\ mres = <<TRUE>>
  /\ mkw = <<"b", " ", "a">>
  /\ mtext = <<"AA", "b">>

\* C11: save_db never damages what was durable.  Whenever the process has
\* died, or a step of save_db has failed, at any point of a save_db call, the
\* load_db of the restart returns a db (it does not raise), and that db is
\* either what load_db would have returned before the call or the db passed
\* to the call.
C11_Durable ==
  /\ fs.pc # "dead"
  /\ fs.at # "none" => /\ fs.loaded.ok
                       /\ fs.loaded.db \in {fs.before, fs.arg}
  /\ LET r == load_db(fs.files)
     IN r.ok /\ r.db \in {fs.before, fs.arg}

\* the process died while db.txt was half written, after db.json had been
\* replaced: the restart loaded the db passed to the call
C11_Witness ==
  /\ fs.at = "dump_txt"
  /\ fs.files[DB_TXT].exists /\ ~Parses(fs.files[DB_TXT])
  /\ fs.loaded = Loaded(fs.arg)
  /\ fs.arg # fs.before

\* a /sairgcall has sent its reply in this step
Replied(t) ==
  /\ tasks'[t].kind = "sairgcall" /\ tasks'[t].pc = "done"
  /\ tasks'[t] # tasks[t]

\* C12: when /sairgcall sends its reply no watched chat is left, and leave_chat
\* has been called for every chat the command removed, whether or not the
\* calls failed and whatever /addgc commands were handled meanwhile.
C12_LeaveAll ==
  [][/\ (Handled /\ evt'.cmd = "sairgcall" /\ evt'.reply # "pending") => watched' = <<>>
     /\ \A t \in Tasks :
          Replied(t) => /\ watched' = <<>>
                        /\ tasks'[t].gone \subseteq Attempted(tasks'[t].out)]_vars

\* the watched chats the argument of /sairgc names, by the first of the three
\* criteria that names any: the id, the handle (typed with or without @),
\* a piece of the title in any case
Candidates(w, arg) ==
  LET ids == {w[i].id : i \in 1..Len(w)}
      rec(c) == w[IndexOf(w, c)]
      ById == {c \in ids : str(c) = arg}
      ByHandle == {c \in ids : /\ rec(c).username # <<>>
                               /\ arg \in {rec(c).username, <<"@">> \o rec(c).username}}
      ByTitle == {c \in ids : IsSubstring(lower(arg), lower(rec(c).title))}
  IN IF ById # {} THEN ById
     ELSE IF ByHandle # {} THEN ByHandle
     ELSE ByTitle

\* C14: /sairgc <arg> picks a watched chat whose id is arg; when there is none,
\* one whose handle is arg; when there is none, one whose title contains arg
\* in any case; the order the chats are stored in does not matter.  That chat,
\* and no other, is then removed from the watched chats.
C14_Ordered ==
  [][/\ (Handled /\ evt'.cmd = "sairgc" /\ ~Blank(evt'.text)) =>
          LET cand == Candidates(watched, Trimmed(evt'.text))
          IN IF cand = {} THEN evt'.reply = "notfound" ELSE evt'.chat \in cand
     /\ \A t \in Tasks :
          (tasks[t].kind = "sairgc" /\ tasks[t].pc = "leave" /\ tasks'[t].pc = "done") =>
            {watched'[i].id : i \in 1..Len(watched')} =
              {watched[i].id : i \in 1..Len(watched)} \ {tasks[t].chat}]_vars

\* C15: bot.py: when no handler is suspended, db.json holds the in-memory db,
\* the records ensure_user_record created included.
C15_Synced ==
  (impl = "bot" /\ \A t \in Tasks : tasks[t].pc \in Ended) => disk = Saved(users, watched)

\* C13: POST /webhook is answered 503, and nothing is put on the update queue,
\* as long as application.initialize() and application.start() have not both
\* returned.
C13_NotReady ==
  [][(boot'.nreq = boot.nreq + 1 /\ ~boot.started) =>
        /\ boot'.status = 503
        /\ boot'.update_queue = boot.update_queue]_vars

\* what the startup task has done so far is within the limits
BootLimits ==
  /\ boot.inits <= 1 + ReinitAttempts
  /\ boot.hooks <= SETWEBHOOK_MAX_RETRIES
  /\ (boot.hooks > 0 \/ boot.pc \in {"set_webhook", "backoff_sleep"}) => boot.started
  /\ boot.webhook_set => boot.pc = "returned"
  /\ \A i \in 1..Len(boot.slept) : boot.slept[i] = SETWEBHOOK_INITIAL_BACKOFF * Pow2(i - 1)
  /\ Len(boot.slept) = (CASE boot.hooks = 0 -> 0
                          [] boot.pc = "set_webhook" -> boot.hooks
                          [] OTHER -> boot.hooks - 1)

\* C16: initialize_telegram_app_with_retries always returns: after at most
\* 1+5 initialize/start attempts, set_webhook being called only once one of
\* them has succeeded, and after at most SETWEBHOOK_MAX_RETRIES set_webhook
\* attempts, the first success being the last attempt; between two failed
\* attempts it sleeps SETWEBHOOK_INITIAL_BACKOFF, then twice that, and so on,
\* and it does not sleep after the last attempt.
C16_Terminates ==
  /\ []BootLimits
  /\ <>(boot.pc = "returned")

\* five initialize/start attempts failed, the sixth went through, and every
\* set_webhook attempt failed
C16_Witness ==
  /\ boot.pc = "returned"
  /\ boot.inits = 1 + ReinitAttempts /\ boot.started
  /\ boot.waits = <<2, 4, 8, 16, 32>>
  /\ boot.hooks = SETWEBHOOK_MAX_RETRIES /\ ~boot.webhook_set
  /\ boot.slept = <<1, 2, 4, 8, 16>>

====
